---------------------------- MODULE Spec2Model ----------------------------
(***************************************************************************)
(* Zero-of-Functions solver: the expression evaluator, the numerical       *)
(* differentiator and the six root-finding methods of ZOF_Project/app.py   *)
(* (the same bodies are repeated in ZOF_Project/ZOF_CLI.py).               *)
(*                                                                         *)
(* Numbers.  The program computes in Python floats.  The model computes in *)
(* exact rational arithmetic: a number is a pair <<n, d>> in lowest terms  *)
(* with d > 0.  Every value the bounded inputs below produce is a rational *)
(* that a float computation approximates; rounding, overflow to inf and    *)
(* NaN are outside the model.                                              *)
(*                                                                         *)
(* Expressions.  The program receives an expression as text and hands it   *)
(* to eval().  The state holds the text; Parse gives the syntax tree       *)
(* Python builds for it, and Eval walks the tree the way eval() does:      *)
(* names are looked up in the locals, then the globals, then the builtins. *)
(***************************************************************************)
EXTENDS Integers, Sequences, FiniteSets, TLC

(***************************************************************************)
(* Bounds of the model.                                                    *)
(***************************************************************************)
\* the largest max_iter a call is made with
MaxIterBound == 3
\* start values a, b, x0, x1 range over the integers -1 .. MaxPoint
MaxPoint == 3

(***************************************************************************)
(* Program constants.                                                      *)
(***************************************************************************)
\* derivative's default step h = 1e-7 is 1 / HDen
HDen == 10000000
\* the singularity threshold 1e-14 is 1 / (EpsRoot * EpsRoot)
EpsRoot == 10000000
\* modified secant's default delta = 0.01 is 1 / DeltaDen
DeltaDen == 100

(***************************************************************************)
(* Exact rational arithmetic.                                              *)
(***************************************************************************)
Abs(n) == IF n < 0 THEN -n ELSE n

RECURSIVE GCD(_, _)
GCD(m, n) == IF n = 0 THEN m ELSE GCD(n, m % n)

\* the rational n/d (d # 0) in lowest terms with a positive denominator
Norm(n, d) ==
    LET g == GCD(Abs(n), Abs(d))
    IN  IF d < 0 THEN <<(-n) \div g, (-d) \div g>> ELSE <<n \div g, d \div g>>

Rat(n) == <<n, 1>>
Zero == <<0, 1>>
\* a local that has not been assigned yet
Unset == <<0, 0>>

RAdd(p, q) ==
    LET g == GCD(p[2], q[2])
        l == (p[2] \div g) * q[2]
    IN  Norm(p[1] * (l \div p[2]) + q[1] * (l \div q[2]), l)

RNeg(p) == <<-p[1], p[2]>>
RSub(p, q) == RAdd(p, RNeg(q))

RMul(p, q) ==
    LET g1 == GCD(Abs(p[1]), q[2])
        g2 == GCD(Abs(q[1]), p[2])
    IN  <<(p[1] \div g1) * (q[1] \div g2), (p[2] \div g2) * (q[2] \div g1)>>

\* q # 0
RDiv(p, q) ==
    RMul(p, IF q[1] < 0 THEN <<-q[2], -q[1]>> ELSE <<q[2], q[1]>>)

RAbs(p) == <<Abs(p[1]), p[2]>>
RLess(p, q) == p[1] * q[2] < q[1] * p[2]
RLeq(p, q) == p[1] * q[2] <= q[1] * p[2]
RMin(p, q) == IF RLess(q, p) THEN q ELSE p
RMax(p, q) == IF RLess(p, q) THEN q ELSE p
IsZero(p) == p[1] = 0

\* p < 1e-14 for p >= 0: n/d < 1/10^14 iff n * 10^14 <= d - 1
BelowEps(p) == p[1] <= ((p[2] - 1) \div EpsRoot) \div EpsRoot

(***************************************************************************)
(* Values of the evaluator: a number, another Python object (a function,   *)
(* a module, None), or an exception raised inside eval().                  *)
(***************************************************************************)
NumV(p) == [kind |-> "num", val |-> p, tag |-> ""]
ObjV(t) == [kind |-> "obj", val |-> Unset, tag |-> t]
ExcV(t) == [kind |-> "exc", val |-> Unset, tag |-> t]

(***************************************************************************)
(* Syntax trees.                                                           *)
(***************************************************************************)
Lit(n) == [node |-> "num", n |-> n]
Name(id) == [node |-> "name", id |-> id]
BinOp(op, l, r) == [node |-> "bin", op |-> op, l |-> l, r |-> r]
Call(id, arg) == [node |-> "call", id |-> id, arg |-> arg]

\* the bare identifiers the model evaluates
Identifiers ==
    {"x", "sin", "cos", "tan", "exp", "log", "sqrt", "abs", "pow", "pi", "e",
     "math", "__builtins__", "os", "open", "__import__", "y"}

\* the expressions the solvers are run on
NumericExprs ==
    {"x - 1", "3*x - 1", "x*x - 2", "3", "1/x", "abs(x) - 1", "abs(x) + 1",
     "x - y"}

\* the tree Python's parser builds for an expression text
Parse(text) ==
    CASE text = "x - 1" -> BinOp("-", Name("x"), Lit(1))
      [] text = "3*x - 1" -> BinOp("-", BinOp("*", Lit(3), Name("x")), Lit(1))
      [] text = "x*x - 2" -> BinOp("-", BinOp("*", Name("x"), Name("x")), Lit(2))
      [] text = "3" -> Lit(3)
      [] text = "1/x" -> BinOp("/", Lit(1), Name("x"))
      [] text = "abs(x) - 1" -> BinOp("-", Call("abs", Name("x")), Lit(1))
      [] text = "abs(x) + 1" -> BinOp("+", Call("abs", Name("x")), Lit(1))
      [] text = "x - y" -> BinOp("-", Name("x"), Name("y"))
      [] text \in Identifiers -> Name(text)

\* the identifiers a tree refers to
RECURSIVE Names(_)
Names(t) ==
    CASE t.node = "num" -> {}
      [] t.node = "name" -> {t.id}
      [] t.node = "bin" -> Names(t.l) \cup Names(t.r)
      [] t.node = "call" -> {t.id} \cup Names(t.arg)

(***************************************************************************)
(* safe_eval: eval(expr, {"__builtins__": None}, {...locals...}).          *)
(***************************************************************************)
\* mutant: the CLI copy's dictionary also binds open
LocalNamesWithOpen(front) ==
    {"x", "math", "sin", "cos", "tan", "exp", "log", "sqrt", "pi", "e",
     "abs", "pow"} \cup (IF front = "cli" THEN {"open"} ELSE {})

\* the keys of the locals dictionary safe_eval passes to eval(), in the HTTP
\* copy (app.py) and in the CLI copy (ZOF_CLI.py)
LocalNames(front) ==
    CASE front = "http" ->
           {"x", "math", "sin", "cos", "tan", "exp", "log", "sqrt", "pi", "e",
            "abs", "pow"}
      [] front = "cli" ->
           {"x", "math", "sin", "cos", "tan", "exp", "log", "sqrt", "pi", "e",
            "abs", "pow"}

\* the keys of the globals dictionary safe_eval passes to eval()
GlobalNames == {"__builtins__"}

\* LOAD_NAME: locals, then globals, then the builtins, which are None here,
\* so that the last lookup raises TypeError (None is not subscriptable)
Lookup(front, id, x_val) ==
    IF id \in LocalNames(front)
    THEN IF id = "x" THEN NumV(x_val) ELSE ObjV(id)
    ELSE IF id \in GlobalNames THEN ObjV("None")
    ELSE ExcV("TypeError")

\* a binary operator on two evaluated operands
Arith(op, l, r) ==
    IF l.kind = "exc" THEN l
    ELSE IF r.kind = "exc" THEN r
    ELSE IF l.kind # "num" \/ r.kind # "num" THEN ExcV("TypeError")
    ELSE CASE op = "+" -> NumV(RAdd(l.val, r.val))
           [] op = "-" -> NumV(RSub(l.val, r.val))
           [] op = "*" -> NumV(RMul(l.val, r.val))
           [] op = "/" -> IF IsZero(r.val) THEN ExcV("ZeroDivisionError")
                          ELSE NumV(RDiv(l.val, r.val))

\* a call of a looked-up object on one evaluated argument
Apply(f, v) ==
    IF f.kind = "exc" THEN f
    ELSE IF v.kind = "exc" THEN v
    ELSE IF f.kind # "obj" \/ v.kind # "num" THEN ExcV("TypeError")
    ELSE CASE f.tag = "abs" -> NumV(RAbs(v.val))

RECURSIVE Eval(_, _, _)
Eval(front, t, x_val) ==
    CASE t.node = "num" -> NumV(Rat(t.n))
      [] t.node = "name" -> Lookup(front, t.id, x_val)
      [] t.node = "bin" ->
           Arith(t.op, Eval(front, t.l, x_val), Eval(front, t.r, x_val))
      [] t.node = "call" ->
           Apply(Lookup(front, t.id, x_val), Eval(front, t.arg, x_val))

\* "except Exception as e: raise ValueError(...)": every exception inside
\* eval() leaves safe_eval as the evaluation error
EvaluationError == "ValueError: Error evaluating expression"

safe_eval_in(front, expr, x_val) ==
    LET v == Eval(front, Parse(expr), x_val)
    IN  IF v.kind = "exc" THEN ExcV(EvaluationError) ELSE v

\* the solvers below are those of app.py
safe_eval(expr, x_val) == safe_eval_in("http", expr, x_val)

IsExc(v) == v.kind = "exc"

\* derivative(expr, x_val, h): the central difference; an evaluation error of
\* either operand propagates
derivative(expr, x_val, h) ==
    LET fp == safe_eval(expr, RAdd(x_val, h))
        fm == safe_eval(expr, RSub(x_val, h))
    IN  IF IsExc(fp) THEN fp
        ELSE IF IsExc(fm) THEN fm
        ELSE NumV(RDiv(RSub(fp.val, fm.val), RMul(Rat(2), h)))

\* the default argument h=1e-7
DefaultH == <<1, HDen>>

(***************************************************************************)
(* The state of one call.                                                  *)
(***************************************************************************)
VARIABLES
    call,        \* the arguments the caller passed (read-only)
    pc,          \* Initialized, Iterating, Converged, Failed, Evaluated
    failure,     \* the exception that ended the call, "" while there is none
    i,           \* the loop variable, 0 before the first pass
    loc,         \* the other locals of the running method
    iterations,  \* the list of iteration records
    result,      \* the dictionary a method returns
    out          \* the value a direct safe_eval call returns

vars == <<call, pc, failure, i, loc, iterations, result, out>>

Methods ==
    {"bisection", "regula_falsi", "secant", "newton_raphson", "fixed_point",
     "modified_secant"}

Points == {Rat(k) : k \in -1 .. MaxPoint}
Tols == {Zero, <<1, 4>>, Rat(1), Rat(2)}
MaxIters == 0 .. MaxIterBound
Deltas == {<<1, DeltaDen>>, Rat(1)}

\* the expressions each method is run on: the central difference with
\* h = 1e-7 and the perturbation with delta = 0.01 stay within TLC's 32-bit
\* integers on the piecewise linear ones
BracketExprs ==
    {"x - 1", "3*x - 1", "x*x - 2", "abs(x) - 1", "3", "1/x", "x - y"}
\* the quadratic is run from the start values between which it changes
\* sign, where the iterates of the bracketing methods stay small
SmallIterates(r) ==
    r.expr = "x*x - 2" =>
        /\ {r.a, r.b} \subseteq {Rat(-1), Rat(0), Rat(1), Rat(2)}
        /\ Rat(2) \in {r.a, r.b}
LinearExprs ==
    {"x - 1", "3*x - 1", "3", "abs(x) - 1", "abs(x) + 1", "x - y"}
\* modified secant is also run on f(x) = x, whose root is 0, and on 1/x,
\* which has no value at 0
ModifiedSecantExprs == LinearExprs \cup {"x", "1/x"}
\* on 1/x an estimate x moves to (2 + delta) * x: the iterates stay small
\* with delta = 1, and from x0 = 0 there is none
SmallPerturbed(r) ==
    r.expr = "1/x" => (r.delta = Rat(1) \/ r.x0 = Zero)
FixedPointF == {"x - 1", "x*x - 2", "1/x", "x - y"}
FixedPointG == {"3", "3*x - 1", "1/x", "x - 1"}

NoArg == [expr |-> "", g_expr |-> "", a |-> Unset, b |-> Unset, x0 |-> Unset,
          x1 |-> Unset, delta |-> Unset, tol |-> Unset, max_iter |-> 0,
          front |-> "http"]

WithArgs(m, r) ==
    [k \in {"method"} \cup DOMAIN NoArg |->
        IF k = "method" THEN m ELSE IF k \in DOMAIN r THEN r[k] ELSE NoArg[k]]

BracketCalls(m) ==
    {WithArgs(m, r) :
        r \in {q \in [expr : BracketExprs, a : Points, b : Points,
                       tol : Tols, max_iter : MaxIters] : SmallIterates(q)}}

Calls ==
    BracketCalls("bisection") \cup BracketCalls("regula_falsi")
    \cup {WithArgs("secant", [expr |-> r.expr, x0 |-> r.a, x1 |-> r.b,
                              tol |-> r.tol, max_iter |-> r.max_iter]) :
            r \in {q \in [expr : BracketExprs, a : Points, b : Points,
                           tol : Tols, max_iter : MaxIters] :
                       SmallIterates(q)}}
    \cup {WithArgs("newton_raphson", r) :
            r \in [expr : LinearExprs, x0 : Points, tol : Tols,
                   max_iter : MaxIters]}
    \cup {WithArgs("fixed_point", r) :
            r \in [expr : FixedPointF, g_expr : FixedPointG, x0 : Points,
                   tol : Tols, max_iter : MaxIters]}
    \cup {WithArgs("modified_secant", r) :
            r \in {q \in [expr : ModifiedSecantExprs, x0 : Points,
                           delta : Deltas, tol : Tols,
                           max_iter : MaxIters] : SmallPerturbed(q)}}
    \cup {WithArgs("safe_eval", r) :
            r \in [expr : NumericExprs \cup Identifiers, x0 : Points,
                   front : {"http", "cli"}]}

LocalFields ==
    {"a", "b", "fa", "fb", "c", "fc", "c_old", "x0", "x1", "f0", "f1", "x2",
     "x", "fx", "fpx", "x_new", "g_x", "fx_delta", "error"}

\* the frame at entry: the parameters are bound, nothing else is
Frame(cl) ==
    [k \in LocalFields |-> IF k \in {"a", "b", "x0", "x1"} THEN cl[k] ELSE Unset]

NoResult ==
    [root |-> Unset, iterations |-> <<>>, total_iterations |-> 0,
     final_error |-> Unset, fx |-> Unset]

Init ==
    /\ call \in Calls
    /\ pc = "Initialized"
    /\ failure = ""
    /\ i = 0
    /\ loc = Frame(call)
    /\ iterations = <<>>
    /\ result = NoResult
    /\ out = ObjV("")

(***************************************************************************)
(* The exceptions of the methods.                                          *)
(***************************************************************************)
PreconditionError == "ValueError: f(a) and f(b) must have opposite signs"
SecantSingular == "ValueError: Division by zero in secant method"
NewtonSingular == "ValueError: Derivative too close to zero"
ModifiedSecantSingular ==
    "ValueError: Division by zero in modified secant method"
MaxIterationsError ==
    "ValueError: Maximum iterations reached without convergence"
\* a float division whose divisor is 0.0
ZeroDivisionError == "ZeroDivisionError: float division by zero"

(***************************************************************************)
(* The pieces the six loops share.                                         *)
(***************************************************************************)
\* mutant: "for i in range(1, max_iter + 2)"
LoopExhaustedLate(k, max_iter) == k >= max_iter + 1

\* "for i in range(1, max_iter + 1)" has no further pass after pass k
LoopExhausted(k, max_iter) == k >= max_iter

\* mutant: "if error <= tol or abs(f) < tol"
StopInclusive(error, f, tol) == RLeq(error, tol) \/ RLess(RAbs(f), tol)

\* "if error < tol or abs(f) < tol"
Stop(error, f, tol) == RLess(error, tol) \/ RLess(RAbs(f), tol)

\* mutant: "if d < 1e-14", the abs() forgotten
SingularSigned(d) == d[1] <= 0 \/ BelowEps(d)

\* "if abs(d) < 1e-14"
Singular(d) == BelowEps(RAbs(d))

\* mutant: the record numbered from 0
RecordZeroBased(trace, rec) ==
    Append(trace, [rec EXCEPT !.iteration = @ - 1])

\* "iterations.append(record)"
Record(trace, rec) == Append(trace, rec)

\* raise exc out of pass k, the locals being l and the list tr
Raise(exc, l, k, tr) ==
    /\ pc' = "Failed"
    /\ failure' = exc
    /\ loc' = l
    /\ i' = k
    /\ iterations' = tr
    /\ UNCHANGED <<call, result, out>>

\* return res out of pass k
Return(res, l, k, tr) ==
    /\ pc' = "Converged"
    /\ result' = res
    /\ loc' = l
    /\ i' = k
    /\ iterations' = tr
    /\ UNCHANGED <<call, failure, out>>

\* the end of pass k without a return: the next pass, or the raise that
\* follows the loop
EndPass(l, k, tr) ==
    IF LoopExhausted(k, call.max_iter)
    THEN Raise(MaxIterationsError, l, k, tr)
    ELSE /\ pc' = "Iterating"
         /\ loc' = l
         /\ i' = k
         /\ iterations' = tr
         /\ UNCHANGED <<call, failure, result, out>>

(***************************************************************************)
(* bisection_method                                                        *)
(***************************************************************************)
\* "if fa * fb > 0: raise"
SameSign(fa, fb) == RMul(fa, fb)[1] > 0

\* mutant: "error = abs(b - a)"
BisectionErrorFullWidth(a, b) == RAbs(RSub(b, a))

\* "error = abs(b - a) / 2"
BisectionError(a, b) == RDiv(RAbs(RSub(b, a)), Rat(2))

\* mutant: "if fa * fc > 0"
ReplaceBFlipped(fa, fc) == RMul(fa, fc)[1] > 0

\* "if fa * fc < 0" : b is replaced, else a
ReplaceB(fa, fc) == RMul(fa, fc)[1] < 0

\* the code before the loop
BisectionEnter ==
    /\ pc = "Initialized"
    /\ call.method = "bisection"
    /\ LET fa == safe_eval(call.expr, loc.a)
           fb == safe_eval(call.expr, loc.b)
       IN  IF IsExc(fa) THEN Raise(fa.tag, loc, 0, <<>>)
           ELSE IF IsExc(fb)
           THEN Raise(fb.tag, [loc EXCEPT !.fa = fa.val], 0, <<>>)
           ELSE LET l == [loc EXCEPT !.fa = fa.val, !.fb = fb.val]
                IN  IF SameSign(fa.val, fb.val)
                    THEN Raise(PreconditionError, l, 0, <<>>)
                    ELSE EndPass(l, 0, <<>>)

\* one pass of the loop
BisectionPass ==
    /\ pc = "Iterating"
    /\ call.method = "bisection"
    /\ LET k == i + 1
           c == RDiv(RAdd(loc.a, loc.b), Rat(2))
           fc == safe_eval(call.expr, c)
           error == BisectionError(loc.a, loc.b)
           l1 == [loc EXCEPT !.c = c]
       IN  IF IsExc(fc) THEN Raise(fc.tag, l1, k, iterations)
           ELSE LET l2 == [l1 EXCEPT !.fc = fc.val, !.error = error]
                    tr == Record(iterations,
                                 [iteration |-> k, a |-> loc.a, b |-> loc.b,
                                  c |-> c, fc |-> fc.val, error |-> error])
                IN  IF Stop(error, fc.val, call.tol)
                    THEN Return([root |-> c, iterations |-> tr,
                                 total_iterations |-> k,
                                 final_error |-> error, fx |-> fc.val],
                                l2, k, tr)
                    ELSE IF ReplaceB(loc.fa, fc.val)
                    THEN EndPass([l2 EXCEPT !.b = c, !.fb = fc.val], k, tr)
                    ELSE EndPass([l2 EXCEPT !.a = c, !.fa = fc.val], k, tr)

(***************************************************************************)
(* regula_falsi_method                                                     *)
(***************************************************************************)
RegulaFalsiEnter ==
    /\ pc = "Initialized"
    /\ call.method = "regula_falsi"
    /\ EndPass([loc EXCEPT !.c_old = loc.a], 0, <<>>)

RegulaFalsiPass ==
    /\ pc = "Iterating"
    /\ call.method = "regula_falsi"
    /\ LET k == i + 1
           fa == safe_eval(call.expr, loc.a)
           fb == safe_eval(call.expr, loc.b)
       IN  IF IsExc(fa) THEN Raise(fa.tag, loc, k, iterations)
           ELSE IF IsExc(fb)
           THEN Raise(fb.tag, [loc EXCEPT !.fa = fa.val], k, iterations)
           ELSE
           LET l1 == [loc EXCEPT !.fa = fa.val, !.fb = fb.val]
               den == RSub(fb.val, fa.val)
           IN  IF IsZero(den) THEN Raise(ZeroDivisionError, l1, k, iterations)
               ELSE
               LET c == RDiv(RSub(RMul(loc.a, fb.val), RMul(loc.b, fa.val)),
                             den)
                   fc == safe_eval(call.expr, c)
                   l2 == [l1 EXCEPT !.c = c]
               IN  IF IsExc(fc) THEN Raise(fc.tag, l2, k, iterations)
                   ELSE
                   LET error == IF k > 1 THEN RAbs(RSub(c, loc.c_old))
                                ELSE RAbs(RSub(loc.b, loc.a))
                       l3 == [l2 EXCEPT !.fc = fc.val, !.error = error]
                       tr == Record(iterations,
                                    [iteration |-> k, a |-> loc.a,
                                     b |-> loc.b, c |-> c, fc |-> fc.val,
                                     error |-> error])
                   IN  IF Stop(error, fc.val, call.tol)
                       THEN Return([root |-> c, iterations |-> tr,
                                    total_iterations |-> k,
                                    final_error |-> error, fx |-> fc.val],
                                   l3, k, tr)
                       ELSE IF ReplaceB(fa.val, fc.val)
                       THEN EndPass([l3 EXCEPT !.b = c, !.c_old = c], k, tr)
                       ELSE EndPass([l3 EXCEPT !.a = c, !.c_old = c], k, tr)


(***************************************************************************)
(* secant_method                                                           *)
(***************************************************************************)
SecantEnter ==
    /\ pc = "Initialized"
    /\ call.method = "secant"
    /\ EndPass(loc, 0, <<>>)

SecantPass ==
    /\ pc = "Iterating"
    /\ call.method = "secant"
    /\ LET k == i + 1
           f0 == safe_eval(call.expr, loc.x0)
           f1 == safe_eval(call.expr, loc.x1)
       IN  IF IsExc(f0) THEN Raise(f0.tag, loc, k, iterations)
           ELSE IF IsExc(f1)
           THEN Raise(f1.tag, [loc EXCEPT !.f0 = f0.val], k, iterations)
           ELSE
           LET l1 == [loc EXCEPT !.f0 = f0.val, !.f1 = f1.val]
               den == RSub(f1.val, f0.val)
           IN  IF Singular(den) THEN Raise(SecantSingular, l1, k, iterations)
               ELSE
               LET x2 == RSub(loc.x1,
                              RDiv(RMul(f1.val, RSub(loc.x1, loc.x0)), den))
                   error == RAbs(RSub(x2, loc.x1))
                   l2 == [l1 EXCEPT !.x2 = x2, !.error = error]
                   tr == Record(iterations,
                                [iteration |-> k, x0 |-> loc.x0,
                                 x1 |-> loc.x1, f1 |-> f1.val,
                                 error |-> error])
               IN  IF Stop(error, f1.val, call.tol)
                   THEN LET fx == safe_eval(call.expr, x2)
                        IN  IF IsExc(fx) THEN Raise(fx.tag, l2, k, tr)
                            ELSE Return([root |-> x2, iterations |-> tr,
                                         total_iterations |-> k,
                                         final_error |-> error,
                                         fx |-> fx.val],
                                        l2, k, tr)
                   ELSE EndPass([l2 EXCEPT !.x0 = loc.x1, !.x1 = x2], k, tr)

(***************************************************************************)
(* newton_raphson_method                                                   *)
(***************************************************************************)
NewtonRaphsonEnter ==
    /\ pc = "Initialized"
    /\ call.method = "newton_raphson"
    /\ EndPass([loc EXCEPT !.x = loc.x0], 0, <<>>)

NewtonRaphsonPass ==
    /\ pc = "Iterating"
    /\ call.method = "newton_raphson"
    /\ LET k == i + 1
           fx == safe_eval(call.expr, loc.x)
           fpx == derivative(call.expr, loc.x, DefaultH)
       IN  IF IsExc(fx) THEN Raise(fx.tag, loc, k, iterations)
           ELSE IF IsExc(fpx)
           THEN Raise(fpx.tag, [loc EXCEPT !.fx = fx.val], k, iterations)
           ELSE
           LET l1 == [loc EXCEPT !.fx = fx.val, !.fpx = fpx.val]
           IN  IF Singular(fpx.val)
               THEN Raise(NewtonSingular, l1, k, iterations)
               ELSE
               LET x_new == RSub(loc.x, RDiv(fx.val, fpx.val))
                   error == RAbs(RSub(x_new, loc.x))
                   l2 == [l1 EXCEPT !.x_new = x_new, !.error = error]
                   tr == Record(iterations,
                                [iteration |-> k, x |-> loc.x, fx |-> fx.val,
                                 fpx |-> fpx.val, error |-> error])
               IN  IF Stop(error, fx.val, call.tol)
                   THEN LET fr == safe_eval(call.expr, x_new)
                        IN  IF IsExc(fr) THEN Raise(fr.tag, l2, k, tr)
                            ELSE Return([root |-> x_new, iterations |-> tr,
                                         total_iterations |-> k,
                                         final_error |-> error,
                                         fx |-> fr.val],
                                        l2, k, tr)
                   ELSE EndPass([l2 EXCEPT !.x = x_new], k, tr)

(***************************************************************************)
(* fixed_point_method                                                      *)
(***************************************************************************)
FixedPointEnter ==
    /\ pc = "Initialized"
    /\ call.method = "fixed_point"
    /\ EndPass([loc EXCEPT !.x = loc.x0], 0, <<>>)

FixedPointPass ==
    /\ pc = "Iterating"
    /\ call.method = "fixed_point"
    /\ LET k == i + 1
           g_x == safe_eval(call.g_expr, loc.x)
           fx == safe_eval(call.expr, loc.x)
       IN  IF IsExc(g_x) THEN Raise(g_x.tag, loc, k, iterations)
           ELSE IF IsExc(fx)
           THEN Raise(fx.tag, [loc EXCEPT !.g_x = g_x.val], k, iterations)
           ELSE
           LET error == RAbs(RSub(g_x.val, loc.x))
               l1 == [loc EXCEPT !.g_x = g_x.val, !.fx = fx.val,
                                 !.error = error]
               tr == Record(iterations,
                            [iteration |-> k, x |-> loc.x, gx |-> g_x.val,
                             fx |-> fx.val, error |-> error])
           IN  IF Stop(error, fx.val, call.tol)
               THEN LET fr == safe_eval(call.expr, g_x.val)
                    IN  IF IsExc(fr) THEN Raise(fr.tag, l1, k, tr)
                        ELSE Return([root |-> g_x.val, iterations |-> tr,
                                     total_iterations |-> k,
                                     final_error |-> error, fx |-> fr.val],
                                    l1, k, tr)
               ELSE EndPass([l1 EXCEPT !.x = g_x.val], k, tr)

(***************************************************************************)
(* modified_secant_method                                                  *)
(***************************************************************************)
\* a perturbation that does not scale with the estimate
PerturbationAbsolute(delta, x) == delta
\* "delta * x", the step of the finite difference
Perturbation(delta, x) == RMul(delta, x)

ModifiedSecantEnter ==
    /\ pc = "Initialized"
    /\ call.method = "modified_secant"
    /\ EndPass([loc EXCEPT !.x = loc.x0], 0, <<>>)

ModifiedSecantPass ==
    /\ pc = "Iterating"
    /\ call.method = "modified_secant"
    /\ LET k == i + 1
           dx == Perturbation(call.delta, loc.x)
           fx == safe_eval(call.expr, loc.x)
           fx_delta == safe_eval(call.expr, RAdd(loc.x, dx))
       IN  IF IsExc(fx) THEN Raise(fx.tag, loc, k, iterations)
           ELSE IF IsExc(fx_delta)
           THEN Raise(fx_delta.tag, [loc EXCEPT !.fx = fx.val], k, iterations)
           ELSE
           LET l1 == [loc EXCEPT !.fx = fx.val, !.fx_delta = fx_delta.val]
               den == RSub(fx_delta.val, fx.val)
           IN  IF Singular(den)
               THEN Raise(ModifiedSecantSingular, l1, k, iterations)
               ELSE
               LET x_new == RSub(loc.x, RDiv(RMul(fx.val, dx), den))
                   error == RAbs(RSub(x_new, loc.x))
                   l2 == [l1 EXCEPT !.x_new = x_new, !.error = error]
                   tr == Record(iterations,
                                [iteration |-> k, x |-> loc.x, fx |-> fx.val,
                                 fx_delta |-> fx_delta.val, error |-> error])
               IN  IF Stop(error, fx.val, call.tol)
                   THEN LET fr == safe_eval(call.expr, x_new)
                        IN  IF IsExc(fr) THEN Raise(fr.tag, l2, k, tr)
                            ELSE Return([root |-> x_new, iterations |-> tr,
                                         total_iterations |-> k,
                                         final_error |-> error,
                                         fx |-> fr.val],
                                        l2, k, tr)
                   ELSE EndPass([l2 EXCEPT !.x = x_new], k, tr)

(***************************************************************************)
(* A direct call of the evaluator, safe_eval(expr, x0), in either copy.    *)
(***************************************************************************)
SafeEvalCall ==
    /\ pc = "Initialized"
    /\ call.method = "safe_eval"
    /\ LET v == safe_eval_in(call.front, call.expr, loc.x0)
       IN  /\ out' = IF IsExc(v) THEN out ELSE v
           /\ pc' = IF IsExc(v) THEN "Failed" ELSE "Evaluated"
           /\ failure' = IF IsExc(v) THEN v.tag ELSE ""
    /\ UNCHANGED <<call, i, loc, iterations, result>>

Next ==
    \/ BisectionEnter
    \/ BisectionPass
    \/ RegulaFalsiEnter
    \/ RegulaFalsiPass
    \/ SecantEnter
    \/ SecantPass
    \/ NewtonRaphsonEnter
    \/ NewtonRaphsonPass
    \/ FixedPointEnter
    \/ FixedPointPass
    \/ ModifiedSecantEnter
    \/ ModifiedSecantPass
    \/ SafeEvalCall

Spec == Init /\ [][Next]_vars

(***************************************************************************)
(* Vocabulary of the properties.                                           *)
(***************************************************************************)
\* the largest exponent the logarithms below range over
LogRange == 8

Positive(p) == p[1] > 0

\* f(a) * f(b) < 0 for the expression f
SignChange(expr, a, b) ==
    LET fa == safe_eval(expr, a)
        fb == safe_eval(expr, b)
    IN  /\ ~IsExc(fa)
        /\ ~IsExc(fb)
        /\ RMul(fa.val, fb.val)[1] < 0

\* the residual a record holds: f(c), f(x1) or f(x)
Residual(rec) ==
    CASE call.method \in {"bisection", "regula_falsi"} -> rec.fc
      [] call.method = "secant" -> rec.f1
      [] OTHER -> rec.fx

\* the stopping rule, "error < tol or |f| < tol", on a record
RecordStops(rec) ==
    RLess(rec.error, call.tol) \/ RLess(RAbs(Residual(rec)), call.tol)

RECURSIVE Pow2(_)
Pow2(k) == IF k = 0 THEN 1 ELSE 2 * Pow2(k - 1)

\* r <= 2^k
LeqPow2(r, k) ==
    IF k >= 0 THEN r[1] <= Pow2(k) * r[2] ELSE r[1] * Pow2(-k) <= r[2]

\* ceil(log2(r)) for r > 0
CeilLog2(r) ==
    CHOOSE k \in (-LogRange) .. LogRange : LeqPow2(r, k) /\ ~LeqPow2(r, k - 1)

\* the least n >= 1 with w / 2^n < tol
HalvingsNeeded(w, tol) ==
    CHOOSE n \in 1 .. LogRange :
        /\ RLess(RDiv(w, Rat(Pow2(n))), tol)
        /\ \A m \in 1 .. (n - 1) : ~RLess(RDiv(w, Rat(Pow2(m))), tol)

\* the error kind of an exception, as the error-handling design names them
Kind(exc) ==
    CASE exc = PreconditionError -> "Precondition"
      [] exc \in {SecantSingular, NewtonSingular, ModifiedSecantSingular} ->
           "Singular"
      [] exc = MaxIterationsError -> "MaxIterationsExceeded"
      [] exc = EvaluationError -> "Evaluation"
      [] OTHER -> "Undeclared"

\* a bisection call on a < b with a sign change, a positive tolerance, and
\* every midpoint evaluable
BisectionCase ==
    /\ call.method = "bisection"
    /\ RLess(call.a, call.b)
    /\ Positive(call.tol)
    /\ SignChange(call.expr, call.a, call.b)

(***************************************************************************)
(* C1.  A call that returns reports 1 <= total_iterations <= max_iter;     *)
(* the loop is entered again only while passes remain; a call that has run *)
(* max_iter passes, none of which satisfied the stopping rule, and that    *)
(* has not failed otherwise, has ended with "Maximum iterations reached    *)
(* without convergence"; and that error is raised only then.               *)
(***************************************************************************)
C1_IterationBound ==
    call.method \in Methods =>
        /\ pc = "Converged" =>
              /\ 1 <= result.total_iterations
              /\ result.total_iterations <= call.max_iter
        /\ pc = "Iterating" => i < call.max_iter
        /\ ( /\ pc # "Initialized"
             /\ Len(iterations) >= call.max_iter
             /\ \A k \in 1 .. Len(iterations) : ~RecordStops(iterations[k])
             /\ ~(pc = "Failed" /\ failure # MaxIterationsError) )
           => (pc = "Failed" /\ failure = MaxIterationsError)
        /\ (pc = "Failed" /\ failure = MaxIterationsError) =>
              /\ Len(iterations) = (IF call.max_iter > 0 THEN call.max_iter
                                    ELSE 0)
              /\ \A k \in 1 .. Len(iterations) : ~RecordStops(iterations[k])

C1_Witness ==
    /\ call.method = "fixed_point"
    /\ pc = "Failed"
    /\ failure = MaxIterationsError
    /\ Len(iterations) = call.max_iter
    /\ call.max_iter >= 3

(***************************************************************************)
(* C2.  Whenever f(a) * f(b) < 0 does not hold (f(a), f(b) of one sign, or *)
(* one of them 0), bisection fails with the precondition error before the  *)
(* first pass: no midpoint, no record, no result.                          *)
(***************************************************************************)
C2_PreconditionStrict ==
    ( /\ call.method = "bisection"
      /\ call.max_iter >= 1
      /\ pc # "Initialized"
      /\ ~IsExc(safe_eval(call.expr, call.a))
      /\ ~IsExc(safe_eval(call.expr, call.b))
      /\ ~SignChange(call.expr, call.a, call.b) )
    => /\ pc = "Failed"
       /\ failure = PreconditionError
       /\ i = 0
       /\ loc.c = Unset
       /\ iterations = <<>>
       /\ result = NoResult

(***************************************************************************)
(* C3 as claimed.  With max_iter >= ceil(log2((b - a) / tol)), bisection   *)
(* on a bracket with a sign change returns a result after at most          *)
(* ceil(log2((b - a) / tol)) passes.                                       *)
(***************************************************************************)
C3_CeilLog2Bound ==
    ( /\ BisectionCase
      /\ call.max_iter >= 1
      /\ pc \in {"Converged", "Failed"}
      /\ failure # EvaluationError
      /\ call.max_iter >=
            CeilLog2(RDiv(RSub(call.b, call.a), call.tol)) )
    => /\ pc = "Converged"
       /\ result.total_iterations <=
             CeilLog2(RDiv(RSub(call.b, call.a), call.tol))

(***************************************************************************)
(* C3 amended.  With N the least n >= 1 such that (b - a) / 2^n < tol and  *)
(* max_iter >= N, bisection on a bracket with a sign change whose          *)
(* midpoints can all be evaluated returns a result after at most N passes. *)
(***************************************************************************)
C3_HalvingBound ==
    ( /\ BisectionCase
      /\ pc \in {"Converged", "Failed"}
      /\ failure # EvaluationError
      /\ call.max_iter >= HalvingsNeeded(RSub(call.b, call.a), call.tol) )
    => /\ pc = "Converged"
       /\ result.total_iterations <=
             HalvingsNeeded(RSub(call.b, call.a), call.tol)

\* (b - a) / tol is the power of two 2^2 and the call takes 3 passes
C3_Witness ==
    /\ BisectionCase
    /\ pc = "Converged"
    /\ RDiv(RSub(call.b, call.a), call.tol) = Rat(4)
    /\ result.total_iterations = 3
    /\ HalvingsNeeded(RSub(call.b, call.a), call.tol) = 3

(***************************************************************************)
(* C4 as claimed.  The root r bisection returns has |f(r)| < tol, or the   *)
(* bracket of the converging pass has width |b - a| < tol.                 *)
(***************************************************************************)
C4_WidthBelowTol ==
    (BisectionCase /\ pc = "Converged") =>
        LET last == result.iterations[Len(result.iterations)]
        IN  \/ RLess(RAbs(safe_eval(call.expr, result.root).val), call.tol)
            \/ RLess(RAbs(RSub(last.b, last.a)), call.tol)

(***************************************************************************)
(* C4 amended.  The root r bisection returns is the midpoint of the        *)
(* bracket of the converging pass, and |f(r)| < tol or half the width of   *)
(* that bracket, |b - a| / 2, is < tol.                                    *)
(***************************************************************************)
C4_HalfWidthBelowTol ==
    (BisectionCase /\ pc = "Converged") =>
        LET last == result.iterations[Len(result.iterations)]
        IN  /\ result.root = RDiv(RAdd(last.a, last.b), Rat(2))
            /\ \/ RLess(RAbs(safe_eval(call.expr, result.root).val), call.tol)
               \/ RLess(RDiv(RAbs(RSub(last.b, last.a)), Rat(2)), call.tol)

\* a root returned on the half width alone, the width being >= tol
C4_Witness ==
    /\ BisectionCase
    /\ pc = "Converged"
    /\ ~RLess(RAbs(result.fx), call.tol)
    /\ LET last == result.iterations[Len(result.iterations)]
       IN  ~RLess(RAbs(RSub(last.b, last.a)), call.tol)

(***************************************************************************)
(* C5 as claimed.  An expression that refers to an identifier outside      *)
(* {x, sin, cos, tan, exp, log, sqrt, abs, pow, pi, e} makes safe_eval     *)
(* fail with the evaluation error, in both copies.                         *)
(***************************************************************************)
SpecNames ==
    {"x", "sin", "cos", "tan", "exp", "log", "sqrt", "abs", "pow", "pi", "e"}

ResolvableNames == SpecNames \cup {"math", "__builtins__"}

DenominatorComputed ==
    /\ call.method \in {"secant", "newton_raphson", "modified_secant"}
    /\ i >= 1
    /\ ~(pc = "Failed" /\ failure = EvaluationError
         /\ Len(iterations) = i - 1)

LastDenominator ==
    CASE call.method = "secant" -> RSub(loc.f1, loc.f0)
      [] call.method = "newton_raphson" -> loc.fpx
      [] call.method = "modified_secant" -> RSub(loc.fx_delta, loc.fx)

SingularityErrorOf(m) ==
    CASE m = "secant" -> SecantSingular
      [] m = "newton_raphson" -> NewtonSingular
      [] m = "modified_secant" -> ModifiedSecantSingular

C6_SingularGuard ==
    /\ DenominatorComputed =>
          IF BelowEps(RAbs(LastDenominator))
          THEN /\ pc = "Failed"
               /\ failure = SingularityErrorOf(call.method)
               /\ Len(iterations) = i - 1
               /\ result = NoResult
          ELSE Kind(failure) # "Singular"
    /\ Kind(failure) = "Singular" => DenominatorComputed

\* equal function values at two secant guesses that are both within tol of 0
C6_Witness ==
    /\ call.method = "secant"
    /\ pc = "Failed"
    /\ failure = SecantSingular
    /\ loc.f0 = loc.f1
    /\ RLess(RAbs(loc.f1), call.tol)
    /\ i >= 1

(***************************************************************************)
(* C7.  A call of any of the six methods that fails, fails with one of the *)
(* four declared error kinds, and with the precondition error only in      *)
(* bisection before the first pass.                                        *)
(***************************************************************************)
C7_DeclaredOutcomes ==
    (call.method \in Methods /\ pc = "Failed") =>
        /\ Kind(failure) \in
              {"Precondition", "Singular", "MaxIterationsExceeded",
               "Evaluation"}
        /\ Kind(failure) = "Precondition" =>
              (call.method = "bisection" /\ i = 0)

(***************************************************************************)
(* C8.  A result with iteration count n carries the n records of passes    *)
(* 1 .. n in order, and the last one is the record of the converging pass. *)
(***************************************************************************)
C8_TraceComplete ==
    (call.method \in Methods /\ pc = "Converged") =>
        /\ result.total_iterations = i
        /\ result.iterations = iterations
        /\ Len(result.iterations) = result.total_iterations
        /\ \A k \in 1 .. Len(result.iterations) :
              /\ result.iterations[k].iteration = k
              /\ k < Len(result.iterations) =>
                    ~RecordStops(result.iterations[k])
        /\ RecordStops(result.iterations[Len(result.iterations)])
        /\ result.iterations[Len(result.iterations)].error =
              result.final_error

C8_Witness ==
    /\ call.method = "modified_secant"
    /\ pc = "Converged"
    /\ result.total_iterations >= 2
    /\ Len(result.iterations) = result.total_iterations

(***************************************************************************)
(* C9.  In bisection and regula falsi started on endpoints with            *)
(* f(a) * f(b) < 0 and tol > 0: at the start of every pass the endpoints   *)
(* satisfy f(a) * f(b) < 0; the candidate c of the pass lies between them; *)
(* and the next pass starts from the same interval with exactly one        *)
(* endpoint replaced by c, the one whose function value has the sign of    *)
(* f(c), so that the new interval lies within the previous one.            *)
(***************************************************************************)
Between(c, a, b) == RLess(RMin(a, b), c) /\ RLess(c, RMax(a, b))

\* f(p) and the number v have the same strict sign
SameSignAt(expr, p, v) == RMul(safe_eval(expr, p).val, v)[1] > 0

\* the interval a2, b2 is the interval of rec with one endpoint replaced by c
Narrowed(rec, a2, b2) ==
    \/ /\ a2 = rec.c
       /\ b2 = rec.b
       /\ SameSignAt(call.expr, rec.a, rec.fc)
    \/ /\ b2 = rec.c
       /\ a2 = rec.a
       /\ SameSignAt(call.expr, rec.b, rec.fc)

C9_BracketInvariant ==
    ( /\ call.method \in {"bisection", "regula_falsi"}
      /\ Positive(call.tol)
      /\ SignChange(call.expr, call.a, call.b) )
    => /\ pc = "Iterating" => SignChange(call.expr, loc.a, loc.b)
       /\ \A k \in 1 .. Len(iterations) :
             /\ SignChange(call.expr, iterations[k].a, iterations[k].b)
             /\ Between(iterations[k].c, iterations[k].a, iterations[k].b)
             /\ k > 1 => Narrowed(iterations[k - 1], iterations[k].a,
                                  iterations[k].b)
       /\ (pc = "Iterating" /\ i >= 1) =>
             Narrowed(iterations[i], loc.a, loc.b)

C9_Witness ==
    /\ call.method = "regula_falsi"
    /\ Positive(call.tol)
    /\ SignChange(call.expr, call.a, call.b)
    /\ Len(iterations) >= 3

(***************************************************************************)
(* C10.  A result of secant, Newton-Raphson, fixed point or modified       *)
(* secant satisfies final_error < tol or |fx| < tol, fx being the function *)
(* value the result reports for the returned root.                         *)
(***************************************************************************)
C10_ResidualOfReturnedRoot ==
    ( /\ call.method \in {"secant", "newton_raphson", "fixed_point",
                          "modified_secant"}
      /\ Positive(call.tol)
      /\ pc = "Converged" )
    => \/ RLess(result.final_error, call.tol)
       \/ RLess(RAbs(result.fx), call.tol)

(***************************************************************************)
(* C11.  Modified secant at the estimate 0.                                *)
(***************************************************************************)
\* a modified secant pass is about to start from the estimate x = 0
PassStartsAtZero ==
    /\ call.method = "modified_secant"
    /\ pc = "Iterating"
    /\ loc.x = Zero

\* the pass fails with exc: nothing is appended, nothing is returned
PassFailsWith(exc) ==
    /\ pc' = "Failed"
    /\ failure' = exc
    /\ i' = i + 1
    /\ iterations' = iterations
    /\ result' = NoResult

\* C11 as stated: a modified secant pass that starts at x = 0 fails with the
\* singularity error in that pass, for every f, delta and tol.
C11_ZeroEstimateSingular ==
    [][PassStartsAtZero => PassFailsWith(ModifiedSecantSingular)]_vars

\* C11: a modified secant pass that starts at x = 0 never returns a result
\* and appends no record; it fails in that pass with the singularity error
\* when f has a value at 0 (an exact root included), and with the evaluation
\* error when f has none.
C11_ZeroEstimateFails ==
    [][PassStartsAtZero =>
          PassFailsWith(IF IsExc(safe_eval(call.expr, Zero))
                        THEN EvaluationError
                        ELSE ModifiedSecantSingular)]_vars

\* f(x) = x from x0 = 1: the first pass lands on the exact root 0 without
\* stopping, and the second pass, started at 0, fails as singular
C11_Witness ==
    /\ call.method = "modified_secant"
    /\ pc = "Failed"
    /\ failure = ModifiedSecantSingular
    /\ i = 2
    /\ Len(iterations) = 1
    /\ loc.x = Zero
    /\ call.x0 # Zero
    /\ Positive(call.tol)
    /\ safe_eval(call.expr, Zero) = NumV(Zero)

=============================================================================
